---- MODULE Spec2Model ----
(***************************************************************************)
(* Model of haybale's execution state (src/state.rs): the State facade     *)
(* over a value table, a memory, an allocator and a constraint solver,     *)
(* plus the stack of backtracking points.  The collaborators (Solver,      *)
(* VarMap, Memory, Alloc, size) live in other modules of the crate and are *)
(* modelled from their documented contracts.                               *)
(***************************************************************************)
EXTENDS Integers, Sequences, FiniteSets, TLC

\* ------------------------------------------------------------------ bounds
\* Width of the bit-vectors of the model (the tests use 64-bit vectors).
BVBits == 2
\* Number of calls made on the State in one run.
MaxCalls == 4

Pow2(n) == 2 ^ n

\* ------------------------------------------------------- llvm_ir::Name
NameName(s) == [kind |-> "Name", s |-> s, n |-> 0]
NameNumber(n) == [kind |-> "Number", s |-> "", n |-> n]

Names == {NameName("val"), NameNumber(2)}

\* ------------------------------------------------------- z3::Symbol
SymString(s) == [kind |-> "String", s |-> s, i |-> 0]
SymInt(i) == [kind |-> "Int", s |-> "", i |-> i]

\* Width of the u32 that carries an integer symbol, scaled like BVBits.
SymBits == 3

name_to_sym(name) ==
    IF name.kind = "Name" THEN SymString(name.s)
    ELSE SymInt(name.n % Pow2(SymBits))

\* ------------------------------------------------------- llvm_ir::Type
TypeInt(bits) == [kind |-> "int", bits |-> bits]
TypeBool == TypeInt(1)

\* crate::size::size: the width in bits of a value of the type.
size(ty) == ty.bits

\* ------------------------------------------------------- z3 expressions
BVSym(sym, bits) == [t |-> "bvsym", sym |-> sym, k |-> 0, bits |-> bits]
BVFromU64(v, bits) ==
    [t |-> "bvconst", sym |-> SymString(""), k |-> v % Pow2(bits), bits |-> bits]
BoolSym(sym) == [t |-> "boolsym", sym |-> sym]
BoolFromBool(b) == [t |-> "boolconst", b |-> b]
Bvsgt(l, r) == [t |-> "bvsgt", l |-> l, r |-> r]
Bvslt(l, r) == [t |-> "bvslt", l |-> l, r |-> r]
BVEq(l, r) == [t |-> "bveq", l |-> l, r |-> r]
BoolEq(l, r) == [t |-> "iff", l |-> l, r |-> r]

\* The free constants of the tests.
X == BVSym(SymString("x"), BVBits)
Y == BVSym(SymString("y"), BVBits)
BoolVar == BoolSym(SymString("bool"))

\* The instructions whose results are recorded: one bit-vector valued, one
\* boolean valued.
BVThing == [result |-> NameName("val"), ty |-> TypeInt(BVBits)]
BoolThing == [result |-> NameNumber(2), ty |-> TypeBool]
Things == {BVThing, BoolThing}

\* ------------------------------------------------------- llvm_ir::Operand
\* Operands: a constant integer, a local, metadata, or another constant.
OpConstInt(bits, value) == [kind |-> "ConstantInt", bits |-> bits, value |-> value, name |-> NameName("")]
OpLocal(name) == [kind |-> "LocalOperand", bits |-> 0, value |-> 0, name |-> name]
OpMetadata == [kind |-> "MetadataOperand", bits |-> 0, value |-> 0, name |-> NameName("")]
OpConstOther == [kind |-> "ConstantOther", bits |-> 0, value |-> 0, name |-> NameName("")]

\* ------------------------------------------------------- inputs of the calls
Zero == BVFromU64(0, BVBits)
One == BVFromU64(1, BVBits)

\* x > 0 and x < 0 (signed) stand for the test's x > 11 and x < 8.
AssertConds == {Bvsgt(X, Zero), Bvslt(X, Zero)}
\* The forks of the run: where to resume, where the fork was, and the
\* condition of the branch not taken (the test's y > 5, and its opposite).
Forks ==
    {[in_func |-> "test_func", next_bb |-> NameName("bb2"), prev_bb |-> NameName("bb1"),
      constraint |-> Bvsgt(Y, Zero)],
     [in_func |-> "other_func", next_bb |-> NameName("bb3"), prev_bb |-> NameName("bb2"),
      constraint |-> Bvslt(Y, Zero)]}
DeferredConds == {f.constraint : f \in Forks}
ExtraCondLists ==
    {<<Bvslt(Y, Zero)>>, <<Bvslt(X, Zero)>>, <<Bvsgt(Y, Zero), Bvslt(Y, Zero)>>}
\* The values recorded as results: a BVBits-wide one and a 1-bit one, each
\* recorded for the instruction whose type has its width.
RecordedBVs == {One, BVFromU64(1, 1)}
RecordedBools == {BoolVar}
\* The operands resolved: the constants of the tests (3 at full width, 1 and
\* 0 at one bit), the two unsupported kinds, and the two locals.
Operands ==
    {OpConstInt(BVBits, 3), OpConstInt(1, 1), OpConstInt(1, 0), OpMetadata, OpConstOther,
     OpLocal(NameName("val")), OpLocal(NameNumber(2))}
\* The expressions bound by add_bv_var and add_bool_var.
AddedBVs == {X}
AddedBools == {BoolVar}

\* ------------------------------------------------------- z3
\* The constants a model interprets, and the expressions it is asked about.
BVSyms == {SymString("x"), SymString("y")} \cup {name_to_sym(t.result) : t \in Things}
BoolSyms == {SymString("bool"), name_to_sym(BoolThing.result)}
\* The constants the operands resolve to.
OperandBVs == {BVFromU64(o.value, o.bits) : o \in {p \in Operands : p.kind = "ConstantInt"}}
OperandBools == {BoolFromBool(b) : b \in BOOLEAN}
BVExprs ==
    {X, Y} \cup {BVSym(name_to_sym(t.result), size(t.ty)) : t \in Things} \cup OperandBVs
BoolExprs == {BoolSym(sym) : sym \in BoolSyms} \cup OperandBools

\* Every constraint the calls above can put into the solver.
RecordEqs ==
    UNION {{BVEq(BVSym(name_to_sym(t.result), size(t.ty)), v) :
                v \in {w \in RecordedBVs : w.bits = size(t.ty)}} : t \in Things}
        \cup {BoolEq(BoolSym(name_to_sym(BoolThing.result)), v) : v \in RecordedBools}
ExtraConds == UNION {{cs[i] : i \in 1 .. Len(cs)} : cs \in ExtraCondLists}
CondUniverse == AssertConds \cup DeferredConds \cup ExtraConds \cup RecordEqs

\* A z3 model: one value per bit-vector constant, one per boolean constant.
Models == [bv : [BVSyms -> 0 .. (Pow2(BVBits) - 1)], bool : [BoolSyms -> BOOLEAN]]

\* Two's-complement reading of a bits-wide value.
ToSigned(v, bits) == IF v >= Pow2(bits - 1) THEN v - Pow2(bits) ELSE v

EvalBV(m, e) == IF e.t = "bvconst" THEN e.k ELSE m.bv[e.sym] % Pow2(e.bits)

EvalLeafBool(m, e) == IF e.t = "boolconst" THEN e.b ELSE m.bool[e.sym]

EvalBool(m, e) ==
    CASE e.t = "boolconst" -> e.b
      [] e.t = "boolsym" -> m.bool[e.sym]
      [] e.t = "bvsgt" -> ToSigned(EvalBV(m, e.l), e.l.bits) > ToSigned(EvalBV(m, e.r), e.r.bits)
      [] e.t = "bvslt" -> ToSigned(EvalBV(m, e.l), e.l.bits) < ToSigned(EvalBV(m, e.r), e.r.bits)
      [] e.t = "bveq" -> EvalBV(m, e.l) = EvalBV(m, e.r)
      [] e.t = "iff" -> EvalLeafBool(m, e.l) = EvalLeafBool(m, e.r)

\* The models of a set of constraints.
ModelsOf(cs) == {m \in Models : \A c \in cs : EvalBool(m, c)}

\* What z3 answers for every set of constraints: whether it has a model, and
\* the values its models give to each expression.
Z3Models == [cs \in SUBSET CondUniverse |-> ModelsOf(cs)] @@ << >>
Z3Sat == [cs \in SUBSET CondUniverse |-> Z3Models[cs] # {}] @@ << >>
Z3ValuesBV ==
    [cs \in SUBSET CondUniverse |->
        [e \in BVExprs |-> {EvalBV(m, e) : m \in Z3Models[cs]}] @@ << >>] @@ << >>
Z3ValuesBool ==
    [cs \in SUBSET CondUniverse |->
        [e \in BoolExprs |-> {EvalBool(m, e) : m \in Z3Models[cs]}] @@ << >>] @@ << >>

Sat(cs) == Z3Sat[cs]

\* ------------------------------------------------------- crate::solver::Solver
\* frames[1] is the base level; every push appends a frame, every pop drops
\* the innermost ones.  check_status is the cached verdict.
SolverNew == [frames |-> << {} >>, check_status |-> "none"]

SolverDepth(s) == Len(s.frames) - 1

SolverLive(s) == UNION {s.frames[i] : i \in 1 .. Len(s.frames)}

SolverAssert(s, cond) ==
    [frames |-> [s.frames EXCEPT ![Len(s.frames)] = @ \cup {cond}],
     check_status |-> "none"]

SolverPush(s) == [frames |-> Append(s.frames, {}), check_status |-> "none"]

SolverPop(s, n) ==
    [frames |-> SubSeq(s.frames, 1, IF Len(s.frames) - n >= 1 THEN Len(s.frames) - n ELSE 1),
     check_status |-> "none"]

\* check(): the cached verdict when there is one, else one run of z3.
SolverCheck(s) ==
    IF s.check_status # "none"
    THEN [solver |-> s, ret |-> (s.check_status = "sat"), invoked |-> 0]
    ELSE LET verdict == Sat(SolverLive(s))
         IN [solver |-> [s EXCEPT !.check_status = IF verdict THEN "sat" ELSE "unsat"],
             ret |-> verdict, invoked |-> 1]

RECURSIVE SolverAssertAll(_, _)
SolverAssertAll(s, conds) ==
    IF conds = << >> THEN s
    ELSE SolverAssertAll(SolverAssert(s, Head(conds)), Tail(conds))

\* check_with_extra_constraints(): push, assert each, check, pop.
SolverCheckWithExtra(s, conds) ==
    LET r == SolverCheck(SolverAssertAll(SolverPush(s), conds))
    IN [solver |-> SolverPop(r.solver, 1), ret |-> r.ret, invoked |-> r.invoked]

\* The outcomes of a solution getter: None when the constraints have no
\* model, else the value of the expression in one of their models.  The
\* verdict comes from check(), so it is cached like any other.
SolverGetASolutionForBV(s, bv) ==
    LET r == SolverCheck(s)
    IN IF r.ret
       THEN {[solver |-> r.solver, ret |-> [tag |-> "Some", v |-> v],
              invoked |-> r.invoked] : v \in Z3ValuesBV[SolverLive(s)][bv]}
       ELSE {[solver |-> r.solver, ret |-> [tag |-> "None"], invoked |-> r.invoked]}

SolverGetASolutionForBool(s, b) ==
    LET r == SolverCheck(s)
    IN IF r.ret
       THEN {[solver |-> r.solver, ret |-> [tag |-> "SomeBool", b |-> v],
              invoked |-> r.invoked] : v \in Z3ValuesBool[SolverLive(s)][b]}
       ELSE {[solver |-> r.solver, ret |-> [tag |-> "None"], invoked |-> r.invoked]}

\* ------------------------------------------------------- return values
RetUnit == [tag |-> "unit"]
RetNone == [tag |-> "None"]
RetBool(b) == [tag |-> "bool", b |-> b]
RetSomeU64(v) == [tag |-> "Some", v |-> v]
RetSomeBool(b) == [tag |-> "SomeBool", b |-> b]
RetExpr(e) == [tag |-> "expr", e |-> e]
RetLoc(f, next, prev) == [tag |-> "SomeLoc", loc |-> <<f, next, prev>>]
RetPanic == [tag |-> "panic"]

\* ------------------------------------------------------- crate::varmap::VarMap
Unbound == [t |-> "unbound"]

VarMapNew == [bvs |-> [n \in Names |-> Unbound], bools |-> [n \in Names |-> Unbound]]

VarMapAddBV(vm, name, bv) == [vm EXCEPT !.bvs[name] = bv]
VarMapAddBool(vm, name, b) == [vm EXCEPT !.bools[name] = b]
VarMapLookupBV(vm, name) == vm.bvs[name]
VarMapLookupBool(vm, name) == vm.bools[name]

\* ------------------------------------------------------- crate::memory::Memory
\* Width of a pointer (64 in the program), scaled like BVBits.
PtrBits == 3

Uninit == [t |-> "uninit"]
AllocSize == 2
\* The cell the run writes to and reads from: the one at the first address.
MemAddrs == {0}

MemoryNew == [a \in MemAddrs |-> Uninit]
MemoryRead(m, addr, bits) == m[addr.k]
MemoryWrite(m, addr, val) == [m EXCEPT ![addr.k] = val]

\* ------------------------------------------------------- crate::alloc::Alloc
\* A bump allocator: the next free address.  It is exhausted, which is
\* fatal, when the object would end past the last address.
AllocNew == 0
AllocExhausted(a, bits) == a + bits > Pow2(PtrBits)
AllocAlloc(a, bits) == [alloc |-> a + bits, raw_ptr |-> a]

\* ------------------------------------------------------- State
\* A marker built with the two blocks in each other's place.
BacktrackPointNew_swapped(in_func, next_bb, prev_bb, constraint) ==
    [in_func |-> in_func, next_bb |-> prev_bb, prev_bb |-> next_bb,
     constraint |-> constraint]

BacktrackPointNew(in_func, next_bb, prev_bb, constraint) ==
    [in_func |-> in_func, next_bb |-> next_bb, prev_bb |-> prev_bb,
     constraint |-> constraint]

\* State::new
new ==
    [varmap |-> VarMapNew, mem |-> MemoryNew, alloc |-> AllocNew,
     solver |-> SolverNew, backtrack_points |-> << >>]

\* Each method maps the State before the call to the outcome of the call:
\* the State after it and the value returned (invoked: runs of z3 made).
\* An assert that adds the constraint and keeps the cached verdict.
assert_stale(st, cond) ==
    [st EXCEPT !.solver = [SolverAssert(@, cond) EXCEPT !.check_status = st.solver.check_status]]

assert(st, cond) == [st EXCEPT !.solver = SolverAssert(@, cond)]

\* check() going through the transient-frame path, which drops the cache.
check_uncached(st) ==
    LET r == SolverCheckWithExtra(st.solver, << >>)
    IN [st |-> [st EXCEPT !.solver = r.solver], ret |-> RetBool(r.ret),
        invoked |-> r.invoked]

check(st) ==
    LET r == SolverCheck(st.solver)
    IN [st |-> [st EXCEPT !.solver = r.solver], ret |-> RetBool(r.ret),
        invoked |-> r.invoked]

\* check_with_extra_constraints() asserting the conditions for good.
check_with_extra_constraints_permanent(st, conds) ==
    LET r == SolverCheck(SolverAssertAll(st.solver, conds))
    IN [st |-> [st EXCEPT !.solver = r.solver], ret |-> RetBool(r.ret)]

check_with_extra_constraints(st, conds) ==
    LET r == SolverCheckWithExtra(st.solver, conds)
    IN [st |-> [st EXCEPT !.solver = r.solver], ret |-> RetBool(r.ret)]

\* A getter that solves in a frame of its own and leaves it open.
get_a_solution_for_bv_unbalanced(st, bv) ==
    {[st |-> [st EXCEPT !.solver = r.solver], ret |-> r.ret, invoked |-> r.invoked] :
        r \in SolverGetASolutionForBV(SolverPush(st.solver), bv)}

get_a_solution_for_bv(st, bv) ==
    {[st |-> [st EXCEPT !.solver = r.solver], ret |-> r.ret, invoked |-> r.invoked] :
        r \in SolverGetASolutionForBV(st.solver, bv)}

get_a_solution_for_bool(st, b) ==
    {[st |-> [st EXCEPT !.solver = r.solver], ret |-> r.ret, invoked |-> r.invoked] :
        r \in SolverGetASolutionForBool(st.solver, b)}

get_a_solution_for_bv_by_irname(st, name) ==
    LET bv == VarMapLookupBV(st.varmap, name)
    IN IF bv = Unbound THEN {[st |-> st, ret |-> RetPanic, invoked |-> 0]}
       ELSE get_a_solution_for_bv(st, bv)

get_a_solution_for_bool_by_irname(st, name) ==
    LET b == VarMapLookupBool(st.varmap, name)
    IN IF b = Unbound THEN {[st |-> st, ret |-> RetPanic, invoked |-> 0]}
       ELSE get_a_solution_for_bool(st, b)

\* An add that keeps the binding a name already has.
add_bv_var_keep(st, name, bv) ==
    IF VarMapLookupBV(st.varmap, name) # Unbound THEN st
    ELSE [st EXCEPT !.varmap = VarMapAddBV(@, name, bv)]

add_bv_var(st, name, bv) == [st EXCEPT !.varmap = VarMapAddBV(@, name, bv)]
add_bool_var(st, name, b) == [st EXCEPT !.varmap = VarMapAddBool(@, name, b)]

\* A record that binds the name to the value itself, not to the constant.
record_bv_result_direct(st, thing, resultval) ==
    LET bits == size(thing.ty)
        result == BVSym(name_to_sym(thing.result), bits)
        st2 == assert(st, BVEq(result, resultval))
    IN [st |-> [st2 EXCEPT !.varmap = VarMapAddBV(@, thing.result, resultval)],
        ret |-> RetUnit]

record_bv_result(st, thing, resultval) ==
    LET bits == size(thing.ty)
        result == BVSym(name_to_sym(thing.result), bits)
        st2 == assert(st, BVEq(result, resultval))
    IN [st |-> [st2 EXCEPT !.varmap = VarMapAddBV(@, thing.result, result)],
        ret |-> RetUnit]

record_bool_result(st, thing, resultval) ==
    IF thing.ty # TypeBool THEN [st |-> st, ret |-> RetPanic]
    ELSE LET result == BoolSym(name_to_sym(thing.result))
             st2 == assert(st, BoolEq(result, resultval))
         IN [st |-> [st2 EXCEPT !.varmap = VarMapAddBool(@, thing.result, result)],
             ret |-> RetUnit]

\* A resolver that answers a zero bit for a local without a binding.
operand_to_bv_lenient(st, operand) ==
    CASE operand.kind = "ConstantInt" -> RetExpr(BVFromU64(operand.value, operand.bits))
      [] operand.kind = "LocalOperand" ->
            LET bv == VarMapLookupBV(st.varmap, operand.name)
            IN IF bv = Unbound THEN RetExpr(BVFromU64(0, 1)) ELSE RetExpr(bv)
      [] operand.kind = "MetadataOperand" -> RetPanic
      [] OTHER -> RetPanic

operand_to_bv(st, operand) ==
    CASE operand.kind = "ConstantInt" -> RetExpr(BVFromU64(operand.value, operand.bits))
      [] operand.kind = "LocalOperand" ->
            LET bv == VarMapLookupBV(st.varmap, operand.name)
            IN IF bv = Unbound THEN RetPanic ELSE RetExpr(bv)
      [] operand.kind = "MetadataOperand" -> RetPanic
      [] OTHER -> RetPanic

\* A resolver that reads a constant of any width as a boolean.
operand_to_bool_coerce(st, operand) ==
    CASE operand.kind = "ConstantInt" -> RetExpr(BoolFromBool(operand.value # 0))
      [] operand.kind = "LocalOperand" ->
            LET b == VarMapLookupBool(st.varmap, operand.name)
            IN IF b = Unbound THEN RetPanic ELSE RetExpr(b)
      [] OTHER -> RetPanic

\* A resolver that reads the constant 0 as true and every other as false.
operand_to_bool_negated(st, operand) ==
    CASE operand.kind = "ConstantInt" ->
            IF operand.bits # 1 THEN RetPanic
            ELSE RetExpr(BoolFromBool(operand.value = 0))
      [] operand.kind = "LocalOperand" ->
            LET b == VarMapLookupBool(st.varmap, operand.name)
            IN IF b = Unbound THEN RetPanic ELSE RetExpr(b)
      [] OTHER -> RetPanic

operand_to_bool(st, operand) ==
    CASE operand.kind = "ConstantInt" ->
            IF operand.bits # 1 THEN RetPanic
            ELSE RetExpr(BoolFromBool(operand.value # 0))
      [] operand.kind = "LocalOperand" ->
            LET b == VarMapLookupBool(st.varmap, operand.name)
            IN IF b = Unbound THEN RetPanic ELSE RetExpr(b)
      [] OTHER -> RetPanic

read(st, addr, bits) == RetExpr(MemoryRead(st.mem, addr, bits))

write(st, addr, val) == [st EXCEPT !.mem = MemoryWrite(@, addr, val)]

allocate(st, bits) ==
    IF AllocExhausted(st.alloc, bits) THEN [st |-> st, ret |-> RetPanic]
    ELSE LET a == AllocAlloc(st.alloc, bits)
         IN [st |-> [st EXCEPT !.alloc = a.alloc],
             ret |-> RetExpr(BVFromU64(a.raw_ptr, PtrBits))]

\* A save that forgets to open a solver frame.
save_backtracking_point_nopush(st, in_func, next_bb, prev_bb, constraint) ==
    [st EXCEPT !.backtrack_points =
                   Append(@, BacktrackPointNew(in_func, next_bb, prev_bb, constraint))]

\* A save that asserts the constraint of the other branch at once.
save_backtracking_point_eager(st, in_func, next_bb, prev_bb, constraint) ==
    [st EXCEPT !.solver = SolverAssert(SolverPush(@), constraint),
               !.backtrack_points =
                   Append(@, BacktrackPointNew(in_func, next_bb, prev_bb, constraint))]

save_backtracking_point(st, in_func, next_bb, prev_bb, constraint) ==
    [st EXCEPT !.solver = SolverPush(@),
               !.backtrack_points =
                   Append(@, BacktrackPointNew(in_func, next_bb, prev_bb, constraint))]

\* Reverts with a slip: no pop; two frames popped; the pop made before the
\* stack is looked at; the value table rolled back as well.
revert_to_backtracking_point_nopop(st) ==
    IF st.backtrack_points # << >>
    THEN LET bp == st.backtrack_points[Len(st.backtrack_points)]
             st2 == [st EXCEPT !.backtrack_points = SubSeq(@, 1, Len(@) - 1)]
         IN [st |-> assert(st2, bp.constraint),
             ret |-> RetLoc(bp.in_func, bp.next_bb, bp.prev_bb)]
    ELSE [st |-> st, ret |-> RetNone]

revert_to_backtracking_point_pop2(st) ==
    IF st.backtrack_points # << >>
    THEN LET bp == st.backtrack_points[Len(st.backtrack_points)]
             st2 == [st EXCEPT !.backtrack_points = SubSeq(@, 1, Len(@) - 1),
                               !.solver = SolverPop(@, 2)]
         IN [st |-> assert(st2, bp.constraint),
             ret |-> RetLoc(bp.in_func, bp.next_bb, bp.prev_bb)]
    ELSE [st |-> st, ret |-> RetNone]

revert_to_backtracking_point_popfirst(st) ==
    LET popped == [st EXCEPT !.solver = SolverPop(@, 1)]
    IN IF st.backtrack_points # << >>
       THEN LET bp == st.backtrack_points[Len(st.backtrack_points)]
                st2 == [popped EXCEPT !.backtrack_points = SubSeq(@, 1, Len(@) - 1)]
            IN [st |-> assert(st2, bp.constraint),
                ret |-> RetLoc(bp.in_func, bp.next_bb, bp.prev_bb)]
       ELSE [st |-> popped, ret |-> RetNone]

revert_to_backtracking_point_rollback(st) ==
    IF st.backtrack_points # << >>
    THEN LET bp == st.backtrack_points[Len(st.backtrack_points)]
             st2 == [st EXCEPT !.backtrack_points = SubSeq(@, 1, Len(@) - 1),
                               !.solver = SolverPop(@, 1),
                               !.varmap = VarMapNew]
         IN [st |-> assert(st2, bp.constraint),
             ret |-> RetLoc(bp.in_func, bp.next_bb, bp.prev_bb)]
    ELSE [st |-> st, ret |-> RetNone]

\* A revert that also puts the allocator back to its first address.
revert_to_backtracking_point_resetalloc(st) ==
    IF st.backtrack_points # << >>
    THEN LET bp == st.backtrack_points[Len(st.backtrack_points)]
             st2 == [st EXCEPT !.backtrack_points = SubSeq(@, 1, Len(@) - 1),
                               !.solver = SolverPop(@, 1),
                               !.alloc = AllocNew]
         IN [st |-> assert(st2, bp.constraint),
             ret |-> RetLoc(bp.in_func, bp.next_bb, bp.prev_bb)]
    ELSE [st |-> st, ret |-> RetNone]

\* A revert that reads the last marker and leaves it on the stack.
revert_to_backtracking_point_peek(st) ==
    IF st.backtrack_points # << >>
    THEN LET bp == st.backtrack_points[Len(st.backtrack_points)]
             st2 == [st EXCEPT !.solver = SolverPop(@, 1)]
         IN [st |-> assert(st2, bp.constraint),
             ret |-> RetLoc(bp.in_func, bp.next_bb, bp.prev_bb)]
    ELSE [st |-> st, ret |-> RetNone]

revert_to_backtracking_point(st) ==
    IF st.backtrack_points # << >>
    THEN LET bp == st.backtrack_points[Len(st.backtrack_points)]
             st2 == [st EXCEPT !.backtrack_points = SubSeq(@, 1, Len(@) - 1),
                               !.solver = SolverPop(@, 1)]
         IN [st |-> assert(st2, bp.constraint),
             ret |-> RetLoc(bp.in_func, bp.next_bb, bp.prev_bb)]
    ELSE [st |-> st, ret |-> RetNone]


\* ------------------------------------------------------- the state machine
VARIABLES
    state,        \* the State: varmap, mem, alloc, solver, backtrack_points
    op,           \* name of the last method called on the State
    ret,          \* its return value (RetPanic: the call panicked)
    z3_checks,    \* runs of z3 since the formula last changed
    run,          \* the check() calls since the formula last changed: how
                  \* many, and the verdict of the first
    gone,         \* the constraints the last call removed from the live ones
    saved,        \* per backtracking point: the arguments of its save, the
                  \* constraints live and the results recorded when it was
                  \* made, and the names bound anew since
    calls,        \* number of calls made so far
    arg,          \* the arguments of the last call: the operand, or the
                  \* name, type and expression it was given
    saves,        \* number of save_backtracking_point calls so far
    reverts,      \* number of reverts so far that returned a location
    allocated,    \* the addresses allocate has returned so far
    written       \* per address, the value last given to write

vars ==
    <<state, op, ret, z3_checks, run, gone, saved, calls, arg, saves, reverts,
      allocated, written>>

Live == SolverLive(state.solver)
Depth == SolverDepth(state.solver)
Markers == Len(state.backtrack_points)
panicked == ret = RetPanic

NoRun == [len |-> 0, verdict |-> "none"]

NoOperand == [kind |-> "none", bits |-> 0, value |-> 0, name |-> NameName("")]
NoExpr == [t |-> "none"]
NoArg == [operand |-> NoOperand, name |-> NameName(""), ty |-> TypeInt(0), expr |-> NoExpr]
ArgOperand(operand) == [NoArg EXCEPT !.operand = operand]
ArgExpr(e) == [NoArg EXCEPT !.expr = e]
ArgBinding(name, e) == [NoArg EXCEPT !.name = name, !.expr = e]
ArgResult(thing, e) == [name |-> thing.result, ty |-> thing.ty, expr |-> e, operand |-> NoOperand]

\* The constant record_*_result binds a name to, and the equalities that
\* can define it.
ResultConst(name) ==
    IF name = BoolThing.result THEN BoolSym(name_to_sym(name))
    ELSE BVSym(name_to_sym(name), size(BVThing.ty))
DefiningEqs(name) == {e \in RecordEqs : e.l = ResultConst(name)}
Binding(st, name) ==
    IF name = BoolThing.result THEN VarMapLookupBool(st.varmap, name)
    ELSE VarMapLookupBV(st.varmap, name)
Init ==
    /\ state = new
    /\ op = "new"
    /\ ret = RetUnit
    /\ z3_checks = 0
    /\ run = NoRun
    /\ gone = {}
    /\ saved = << >>
    /\ calls = 0
    /\ arg = NoArg
    /\ saves = 0
    /\ reverts = 0
    /\ allocated = {}
    /\ written = [a \in MemAddrs |-> Uninit]

\* A call that returns r and leaves the State in st, having changed the
\* formula (changed = TRUE) or not, after `invoked` runs of z3.
Returns(name, st, r, changed, invoked) ==
    /\ calls < MaxCalls
    /\ calls' = calls + 1
    /\ state' = st
    /\ op' = name
    /\ ret' = r
    /\ z3_checks' = IF changed THEN 0 ELSE z3_checks + invoked
    /\ run' =
          IF changed THEN NoRun
          ELSE IF name # "check" THEN run
          ELSE IF run.len = 0 THEN [len |-> 1, verdict |-> IF r.b THEN "sat" ELSE "unsat"]
          ELSE [run EXCEPT !.len = @ + 1]
    /\ gone' = Live \ SolverLive(st.solver)
    /\ saves' = IF name = "save_backtracking_point" THEN saves + 1 ELSE saves
    /\ reverts' = IF name = "revert_to_backtracking_point" /\ r # RetNone THEN reverts + 1
                  ELSE reverts
    /\ allocated' = IF name = "allocate" /\ r # RetPanic THEN allocated \cup {r.e}
                    ELSE allocated

\* The markers, once a name has been bound (again) after their save.
Rebound(name) ==
    [i \in 1 .. Len(saved) |-> [saved[i] EXCEPT !.rebound = @ \cup {name}]]

\* One action per public method of State; the inputs range over the sets
\* above.  A call that panics unwinds, and the run ends there.
CallAssert ==
    /\ ~panicked
    /\ \E cond \in AssertConds :
          /\ Returns("assert", assert(state, cond), RetUnit, TRUE, 0)
          /\ arg' = ArgExpr(cond)
    /\ UNCHANGED saved
    /\ UNCHANGED written

CallCheck ==
    /\ ~panicked
    /\ LET r == check(state)
       IN Returns("check", r.st, r.ret, FALSE, r.invoked)
    /\ arg' = NoArg
    /\ UNCHANGED saved
    /\ UNCHANGED written

CallCheckWithExtraConstraints ==
    /\ ~panicked
    /\ \E conds \in ExtraCondLists :
          LET r == check_with_extra_constraints(state, conds)
          IN Returns("check_with_extra_constraints", r.st, r.ret, TRUE, 0)
    /\ arg' = NoArg
    /\ UNCHANGED saved
    /\ UNCHANGED written

\* The expression an operand has just been resolved to, if any: the tests
\* hand the result of operand_to_bv / operand_to_bool to the getters.
Resolved(by) == IF op = by /\ ret.tag = "expr" THEN {ret.e} ELSE {}

CallGetASolutionForBV ==
    /\ ~panicked
    /\ \E bv \in {Y} \cup Resolved("operand_to_bv") :
          /\ \E r \in get_a_solution_for_bv(state, bv) :
                Returns("get_a_solution_for_bv", r.st, r.ret, FALSE, r.invoked)
          /\ arg' = ArgExpr(bv)
    /\ UNCHANGED saved
    /\ UNCHANGED written

CallGetASolutionForBool ==
    /\ ~panicked
    /\ \E b \in {BoolVar} \cup Resolved("operand_to_bool") :
          /\ \E r \in get_a_solution_for_bool(state, b) :
                Returns("get_a_solution_for_bool", r.st, r.ret, FALSE, r.invoked)
          /\ arg' = ArgExpr(b)
    /\ UNCHANGED saved
    /\ UNCHANGED written

CallGetASolutionForBVByIrname ==
    /\ ~panicked
    /\ \E r \in get_a_solution_for_bv_by_irname(state, BVThing.result) :
          Returns("get_a_solution_for_bv_by_irname", r.st, r.ret, FALSE, r.invoked)
    /\ arg' = ArgBinding(BVThing.result, NoExpr)
    /\ UNCHANGED saved
    /\ UNCHANGED written

CallGetASolutionForBoolByIrname ==
    /\ ~panicked
    /\ \E r \in get_a_solution_for_bool_by_irname(state, BoolThing.result) :
          Returns("get_a_solution_for_bool_by_irname", r.st, r.ret, FALSE, r.invoked)
    /\ arg' = ArgBinding(BoolThing.result, NoExpr)
    /\ UNCHANGED saved
    /\ UNCHANGED written

CallAddBVVar ==
    /\ ~panicked
    /\ \E bv \in AddedBVs :
          /\ Returns("add_bv_var", add_bv_var(state, BVThing.result, bv), RetUnit, FALSE, 0)
          /\ arg' = ArgBinding(BVThing.result, bv)
    /\ saved' = Rebound(BVThing.result)
    /\ UNCHANGED written

CallAddBoolVar ==
    /\ ~panicked
    /\ \E b \in AddedBools :
          /\ Returns("add_bool_var", add_bool_var(state, BoolThing.result, b), RetUnit, FALSE, 0)
          /\ arg' = ArgBinding(BoolThing.result, b)
    /\ saved' = Rebound(BoolThing.result)
    /\ UNCHANGED written

\* A bit-vector result is recorded with a value of the width of its type.
CallRecordBVResult ==
    /\ ~panicked
    /\ \E thing \in Things : \E resultval \in {v \in RecordedBVs : v.bits = size(thing.ty)} :
          LET r == record_bv_result(state, thing, resultval)
          IN /\ Returns("record_bv_result", r.st, r.ret, TRUE, 0)
             /\ arg' = ArgResult(thing, resultval)
             /\ saved' = IF thing = BVThing THEN Rebound(thing.result) ELSE saved
    /\ UNCHANGED written

CallRecordBoolResult ==
    /\ ~panicked
    /\ \E thing \in Things : \E resultval \in RecordedBools :
          LET r == record_bool_result(state, thing, resultval)
          IN /\ Returns("record_bool_result", r.st, r.ret, r.ret # RetPanic, 0)
             /\ arg' = ArgResult(thing, resultval)
             /\ saved' = IF r.ret = RetPanic THEN saved ELSE Rebound(thing.result)
    /\ UNCHANGED written

CallOperandToBV ==
    /\ ~panicked
    /\ \E operand \in Operands :
          /\ Returns("operand_to_bv", state, operand_to_bv(state, operand), FALSE, 0)
          /\ arg' = ArgOperand(operand)
    /\ UNCHANGED saved
    /\ UNCHANGED written

CallOperandToBool ==
    /\ ~panicked
    /\ \E operand \in Operands :
          /\ Returns("operand_to_bool", state, operand_to_bool(state, operand), FALSE, 0)
          /\ arg' = ArgOperand(operand)
    /\ UNCHANGED saved
    /\ UNCHANGED written

CallRead ==
    /\ ~panicked
    /\ \E a \in MemAddrs :
          /\ Returns("read", state, read(state, BVFromU64(a, PtrBits), BVBits), FALSE, 0)
          /\ arg' = ArgExpr(BVFromU64(a, PtrBits))
    /\ UNCHANGED saved
    /\ UNCHANGED written

CallWrite ==
    /\ ~panicked
    /\ \E a \in MemAddrs :
          /\ Returns("write", write(state, BVFromU64(a, PtrBits), One), RetUnit, FALSE, 0)
          /\ written' = [written EXCEPT ![a] = One]
          /\ arg' = ArgExpr(BVFromU64(a, PtrBits))
    /\ UNCHANGED saved

CallAllocate ==
    /\ ~panicked
    /\ LET r == allocate(state, AllocSize)
       IN Returns("allocate", r.st, r.ret, FALSE, 0)
    /\ arg' = NoArg
    /\ UNCHANGED saved
    /\ UNCHANGED written

CallSaveBacktrackingPoint ==
    /\ ~panicked
    /\ \E f \in Forks :
          /\ Returns("save_backtracking_point",
                     save_backtracking_point(state, f.in_func, f.next_bb, f.prev_bb, f.constraint),
                     RetUnit, TRUE, 0)
          /\ saved' = Append(saved,
                [live |-> Live, in_func |-> f.in_func, next_bb |-> f.next_bb,
                 prev_bb |-> f.prev_bb, constraint |-> f.constraint,
                 recorded |-> {n \in Names : Binding(state, n) = ResultConst(n)},
                 rebound |-> {}])
    /\ arg' = NoArg
    /\ UNCHANGED written

CallRevertToBacktrackingPoint ==
    /\ ~panicked
    /\ LET r == revert_to_backtracking_point(state)
       IN /\ Returns("revert_to_backtracking_point", r.st, r.ret, r.ret # RetNone, 0)
          /\ saved' = IF saved = << >> THEN saved ELSE SubSeq(saved, 1, Len(saved) - 1)
    /\ arg' = NoArg
    /\ UNCHANGED written

Next ==
    \/ CallAssert
    \/ CallCheck
    \/ CallCheckWithExtraConstraints
    \/ CallGetASolutionForBV
    \/ CallGetASolutionForBool
    \/ CallGetASolutionForBVByIrname
    \/ CallGetASolutionForBoolByIrname
    \/ CallAddBVVar
    \/ CallAddBoolVar
    \/ CallRecordBVResult
    \/ CallRecordBoolResult
    \/ CallOperandToBV
    \/ CallOperandToBool
    \/ CallRead
    \/ CallWrite
    \/ CallAllocate
    \/ CallSaveBacktrackingPoint
    \/ CallRevertToBacktrackingPoint

Spec == Init /\ [][Next]_vars

\* ------------------------------------------------------- name_to_sym alone
\* Width of the usize that carries a numbered name: wider than the u32 of an
\* integer symbol.
NameBits == SymBits + 1
\* The names given to name_to_sym: strings, and every number of the range.
IRNames ==
    {NameName("val"), NameName("2")} \cup {NameNumber(n) : n \in 0 .. (Pow2(NameBits) - 1)}

RetSyms(a, b) == [tag |-> "syms", a |-> a, b |-> b]

\* Two names are drawn, and name_to_sym is applied to each.
InitSym ==
    /\ state = new
    /\ op = "new"
    /\ ret = RetUnit
    /\ z3_checks = 0
    /\ run = NoRun
    /\ gone = {}
    /\ saved = << >>
    /\ calls = 0
    /\ saves = 0
    /\ reverts = 0
    /\ allocated = {}
    /\ written = [a \in MemAddrs |-> Uninit]
    /\ arg \in [a : IRNames, b : IRNames]

CallNameToSym ==
    /\ op = "new"
    /\ op' = "name_to_sym"
    /\ ret' = RetSyms(name_to_sym(arg.a), name_to_sym(arg.b))
    /\ UNCHANGED <<state, z3_checks, run, gone, saved, calls, arg, saves, reverts,
                   allocated, written>>

NextSym == CallNameToSym

SpecSym == InitSym /\ [][NextSym]_vars

\* ------------------------------------------------------- properties
Revert == "revert_to_backtracking_point"
Top == saved[Len(saved)]
Getters ==
    {"get_a_solution_for_bv", "get_a_solution_for_bool",
     "get_a_solution_for_bv_by_irname", "get_a_solution_for_bool_by_irname"}

\* C1: after any sequence of calls the number of open solver frames equals
\* the number of markers on backtrack_points, and both are 0 right after new().
C1_FramesMatchMarkers ==
    /\ Depth = Markers
    /\ op = "new" => Depth = 0

C1_Witness == op = Revert /\ ret.tag = "SomeLoc" /\ Markers = 1 /\ Depth = 1

\* C2: a revert on a non-empty stack leaves live exactly the constraints that
\* were live right before the matching save, plus that marker's constraint.
C2_RevertRestoresConstraints ==
    [][(op' = Revert /\ state.backtrack_points # << >>)
          => Live' = Top.live \cup {Top.constraint}]_vars

C2_Witness ==
    /\ op = Revert /\ ret.tag = "SomeLoc"
    /\ gone # {}
    /\ Live \cap AssertConds # {}

\* C3: a save leaves the live constraints as they were, and a deferred
\* constraint becomes live only in the revert that pops its marker.
C3_ConstraintDeferred ==
    [][/\ op' = "save_backtracking_point" => Live' = Live
       /\ \A c \in DeferredConds :
             (c \notin Live /\ c \in Live')
                => /\ op' = Revert
                   /\ saved # << >>
                   /\ Top.constraint = c
                   /\ Len(state'.backtrack_points) = Markers - 1]_vars

C3_Witness ==
    /\ op = "save_backtracking_point"
    /\ Live # {}
    /\ state.backtrack_points[Markers].constraint \notin Live

\* C4: every successful revert returns (function, next block, previous
\* block) of the latest save not yet reverted, as they were passed to it.
C4_RevertIsLifo ==
    [][(op' = Revert /\ ret' # RetNone)
          => /\ saved # << >>
             /\ ret' = RetLoc(Top.in_func, Top.next_bb, Top.prev_bb)]_vars

C4_Witness ==
    /\ op = Revert /\ ret.tag = "SomeLoc"
    /\ Markers = 1
    /\ ret.loc[1] # state.backtrack_points[1].in_func

\* C5: a revert on an empty stack returns None and leaves the State as it was.
C5_RevertOnEmptyIsNoop ==
    [][(op' = Revert /\ state.backtrack_points = << >>)
          => (ret' = RetNone /\ state' = state)]_vars

C5_Witness ==
    /\ op = Revert /\ ret = RetNone
    /\ Live # {}
    /\ state.solver.check_status # "none"

\* C6: a revert leaves every binding of the value table as it was.
C6_RevertKeepsBindings ==
    [][op' = Revert => state'.varmap = state.varmap]_vars

C6_Witness ==
    /\ op = Revert /\ ret.tag = "SomeLoc"
    /\ Binding(state, BVThing.result) = ResultConst(BVThing.result)
    /\ DefiningEqs(BVThing.result) \cap Live = {}

\* C7 as stated: every name bound to its recorded constant when a save is made
\* is, after the matching revert, still bound to it, with a defining equality
\* of the constant live.
C7_Original ==
    [][(op' = Revert /\ ret' # RetNone /\ saved # << >>)
          => \A n \in Top.recorded :
                /\ Binding(state', n) = ResultConst(n)
                /\ DefiningEqs(n) \cap Live' # {}]_vars

\* C7 amended: every defining equality live at the save is live after the
\* matching revert, and a name bound to its recorded constant at the save is
\* still bound to it unless a call bound the name again in between.
C7_BindingSurvivesRevert ==
    [][(op' = Revert /\ ret' # RetNone /\ saved # << >>)
          => \A n \in Top.recorded :
                /\ DefiningEqs(n) \cap Top.live \subseteq Live'
                /\ n \notin Top.rebound => Binding(state', n) = ResultConst(n)]_vars

C7_Witness ==
    /\ op = Revert /\ ret.tag = "SomeLoc"
    /\ Binding(state, BoolThing.result) = ResultConst(BoolThing.result)
    /\ DefiningEqs(BoolThing.result) \cap Live # {}

\* C8: check_with_extra_constraints leaves the solver frames as they were,
\* and the check() that follows it answers for the live constraints alone.
C8_ExtraConstraintsAreTransient ==
    [][/\ op' = "check_with_extra_constraints"
            => state'.solver.frames = state.solver.frames
       /\ (op = "check_with_extra_constraints" /\ op' = "check")
            => ret' = RetBool(Z3Models[Live] # {})]_vars

C8_Witness ==
    /\ op = "check_with_extra_constraints" /\ ret = RetBool(FALSE)
    /\ Live # {}
    /\ Z3Models[Live] # {}

\* C9: between two changes of the formula z3 runs at most once, and every
\* check() returns the verdict of the first check() of the run.
C9_CheckIsMemoized ==
    [][/\ z3_checks' <= 1
       /\ (op' = "check" /\ run.len > 0)
            => ret' = RetBool(run.verdict = "sat")]_vars

C9_Witness == op = "check" /\ run.len >= 2 /\ z3_checks = 1 /\ Live # {}

\* C10: a solution getter returns None exactly when the live constraints have
\* no model, else the value of the expression in one of their models, and it
\* leaves the solver frames as they were.
QueriedExpr(name) ==
    CASE name = "get_a_solution_for_bv" -> arg'.expr
      [] name = "get_a_solution_for_bool" -> arg'.expr
      [] name = "get_a_solution_for_bv_by_irname" -> Binding(state, BVThing.result)
      [] name = "get_a_solution_for_bool_by_irname" -> Binding(state, BoolThing.result)

C10_SolutionsAreModels ==
    [][(op' \in Getters /\ ret' # RetPanic)
          => /\ state'.solver.frames = state.solver.frames
             /\ ret' = RetNone <=> Z3Models[Live] = {}
             /\ ret'.tag = "Some" => ret'.v \in Z3ValuesBV[Live][QueriedExpr(op')]
             /\ ret'.tag = "SomeBool" => ret'.b \in Z3ValuesBool[Live][QueriedExpr(op')]
             /\ ret'.tag \in {"None", "Some", "SomeBool"}]_vars

C10_Witness ==
    /\ op = "get_a_solution_for_bv" /\ ret.tag = "Some"
    /\ DeferredConds \cap Live # {}
    /\ AssertConds \cap Live # {}

\* C11: record_*_result makes the constant named after the result of the
\* instruction and as wide as its type, asserts constant = value into the
\* innermost frame, and binds the result to the constant, not to the value;
\* every other binding stays as it was.
Records == {"record_bv_result", "record_bool_result"}
RecordedConst(name, a) ==
    IF name = "record_bv_result" THEN BVSym(name_to_sym(a.name), size(a.ty))
    ELSE BoolSym(name_to_sym(a.name))
RecordedEq(name, a) ==
    IF name = "record_bv_result" THEN BVEq(RecordedConst(name, a), a.expr)
    ELSE BoolEq(RecordedConst(name, a), a.expr)

C11_RecordBindsConstant ==
    [][(op' \in Records /\ ret' # RetPanic)
          => /\ state'.solver.frames =
                    [state.solver.frames EXCEPT ![Len(state.solver.frames)] =
                        @ \cup {RecordedEq(op', arg')}]
             /\ RecordedConst(op', arg') # arg'.expr
             /\ op' = "record_bv_result"
                  => /\ state'.varmap.bvs[arg'.name] = RecordedConst(op', arg')
                     /\ state'.varmap.bvs[arg'.name].bits = size(arg'.ty)
                     /\ \A n \in Names \ {arg'.name} :
                           state'.varmap.bvs[n] = state.varmap.bvs[n]
                     /\ state'.varmap.bools = state.varmap.bools
             /\ op' = "record_bool_result"
                  => /\ state'.varmap.bools[arg'.name] = RecordedConst(op', arg')
                     /\ \A n \in Names \ {arg'.name} :
                           state'.varmap.bools[n] = state.varmap.bools[n]
                     /\ state'.varmap.bvs = state.varmap.bvs]_vars

C11_Witness ==
    /\ op = "record_bv_result" /\ arg.name = BVThing.result
    /\ Depth = 1
    /\ state.solver.frames[1] # {}
    /\ state.solver.frames[2] = {BVEq(ResultConst(BVThing.result), One)}
    /\ state.varmap.bvs[BVThing.result] = ResultConst(BVThing.result)
    /\ state.varmap.bools[BoolThing.result] # Unbound

\* C12: a record_*_result whose value does not match the type of the
\* instruction (a boolean for a type that is not bool, a bit-vector for the
\* type bool, a bit-vector of another width than the type) fails, with no
\* constraint asserted and no binding added.
TypeMismatch(name, a) ==
    IF name = "record_bool_result" THEN a.ty # TypeBool
    ELSE a.ty = TypeBool \/ a.expr.bits # size(a.ty)

C12_TypeMismatchFails ==
    [][(op' \in Records /\ TypeMismatch(op', arg'))
          => (ret' = RetPanic /\ state' = state)]_vars

\* C13: resolving a local that has no binding fails and yields no
\* expression, in operand_to_bv / operand_to_bool and in the getters by name;
\* the failed call leaves the State as it was, so a revert made after it does
\* what it would have done before.
UnboundLookup(name, a) ==
    CASE name = "operand_to_bv" ->
            a.operand.kind = "LocalOperand" /\ state.varmap.bvs[a.operand.name] = Unbound
      [] name = "operand_to_bool" ->
            a.operand.kind = "LocalOperand" /\ state.varmap.bools[a.operand.name] = Unbound
      [] name = "get_a_solution_for_bv_by_irname" -> state.varmap.bvs[a.name] = Unbound
      [] name = "get_a_solution_for_bool_by_irname" -> state.varmap.bools[a.name] = Unbound
      [] OTHER -> FALSE

C13_UnboundLookupFails ==
    [][UnboundLookup(op', arg')
          => /\ ret' = RetPanic
             /\ state' = state
             /\ revert_to_backtracking_point(state') = revert_to_backtracking_point(state)]_vars

C13_Witness ==
    /\ op = "operand_to_bv" /\ ret = RetPanic
    /\ arg.operand = OpLocal(BVThing.result)
    /\ Markers = 1
    /\ Live # {}
    /\ state.varmap.bools[BoolThing.result] # Unbound

\* C14: an operand that is neither a constant integer nor a local fails in
\* operand_to_bv and in operand_to_bool, and a constant integer resolved as a
\* boolean fails unless it is 1 bit wide.
Resolvers == {"operand_to_bv", "operand_to_bool"}

C14_UnsupportedOperandFails ==
    [][op' \in Resolvers
          => /\ arg'.operand.kind \notin {"ConstantInt", "LocalOperand"} => ret' = RetPanic
             /\ (/\ op' = "operand_to_bool"
                 /\ arg'.operand.kind = "ConstantInt"
                 /\ arg'.operand.bits # 1) => ret' = RetPanic
             /\ state' = state]_vars

C14_Witness ==
    /\ op = "operand_to_bool" /\ ret = RetPanic
    /\ arg.operand = OpConstInt(BVBits, 3)
    /\ Live # {}

\* C15: a constant operand resolved by operand_to_bv and handed to
\* get_a_solution_for_bv comes back as Some(its value), and a 1-bit constant
\* resolved by operand_to_bool and handed to get_a_solution_for_bool comes
\* back as Some(true) for 1 and Some(false) for 0, whenever the live
\* constraints have a solution at all.
ResolvedConstant(by) ==
    /\ op = by
    /\ ret.tag = "expr"
    /\ arg.operand.kind = "ConstantInt"
    /\ arg'.expr = ret.e
    /\ Z3Sat[Live]

C15_ConstantRoundTrip ==
    [][/\ (ResolvedConstant("operand_to_bv") /\ op' = "get_a_solution_for_bv")
            => ret' = RetSomeU64(arg.operand.value)
       /\ (ResolvedConstant("operand_to_bool") /\ op' = "get_a_solution_for_bool")
            => ret' = RetSomeBool(arg.operand.value = 1)]_vars

C15_Witness ==
    /\ op = "get_a_solution_for_bool" /\ ret = RetSomeBool(FALSE)
    /\ arg.expr = BoolFromBool(FALSE)
    /\ Live # {}

\* C16: operand_to_bv (operand_to_bool) of a local right after add_bv_var
\* (add_bool_var) of its name returns the expression just bound, whatever the
\* name was bound to before; and a call changes no binding but the one of the
\* name it is given, in the table it is given it for: add_bv_var and
\* record_bv_result the bit-vector one, add_bool_var and record_bool_result
\* the boolean one, every other call none.
BindsBV == {"add_bv_var", "record_bv_result"}
BindsBool == {"add_bool_var", "record_bool_result"}

C16_LookupReturnsBinding ==
    [][/\ (op = "add_bv_var" /\ op' = "operand_to_bv" /\ arg'.operand = OpLocal(arg.name))
            => ret' = RetExpr(arg.expr)
       /\ (op = "add_bool_var" /\ op' = "operand_to_bool" /\ arg'.operand = OpLocal(arg.name))
            => ret' = RetExpr(arg.expr)
       /\ \A n \in Names :
             /\ (op' \notin BindsBV \/ arg'.name # n)
                   => state'.varmap.bvs[n] = state.varmap.bvs[n]
             /\ (op' \notin BindsBool \/ arg'.name # n)
                   => state'.varmap.bools[n] = state.varmap.bools[n]]_vars

C16_Witness ==
    /\ op = "operand_to_bv" /\ ret = RetExpr(X)
    /\ arg.operand = OpLocal(BVThing.result)
    /\ DefiningEqs(BVThing.result) \cap Live # {}
    /\ state.varmap.bvs[BoolThing.result] # Unbound

\* C17: name_to_sym maps the same name to the same symbol and two distinct
\* names (two strings, two numbers of the whole range, a string and a number)
\* to two distinct symbols.
C17_NameToSymInjective ==
    op = "name_to_sym" => ((arg.a = arg.b) <=> (ret.a = ret.b))

\* C18: the reverts that returned a location never outnumber the saves, the
\* markers left are the saves not yet reverted, and a revert returns a
\* location and removes one marker when there is one, None when there is
\* none: n markers give n locations and then None, whatever else is called
\* in between but save.
C18_MarkersConsumedOnce ==
    [][/\ reverts' <= saves'
       /\ Len(state'.backtrack_points) = saves' - reverts'
       /\ op' = Revert
            => IF Markers = 0
               THEN ret' = RetNone /\ Len(state'.backtrack_points) = 0
               ELSE ret'.tag = "SomeLoc" /\ Len(state'.backtrack_points) = Markers - 1
       /\ op' \notin {Revert, "save_backtracking_point"}
            => Len(state'.backtrack_points) = Markers]_vars

C18_Witness ==
    /\ op = Revert /\ ret = RetNone
    /\ saves = 1
    /\ reverts = 1
    /\ Cardinality(Live \cap DeferredConds) = 1
    /\ calls = MaxCalls

C20_RevertKeepsMemoryAndAllocator ==
    [][/\ op' \in {"save_backtracking_point", Revert}
            => (state'.mem = state.mem /\ state'.alloc = state.alloc)
       /\ op' = "read" => ret' = RetExpr(written[arg'.expr.k])
       /\ (op' = "allocate" /\ ret' # RetPanic)
            => /\ ret'.e \notin allocated
               /\ ret'.e.t = "bvconst"
               /\ ret'.e.bits = PtrBits]_vars

C20_Witness ==
    /\ op = Revert /\ ret.tag = "SomeLoc"
    /\ reverts = 1
    /\ Markers = 0
    /\ Cardinality(allocated) = 1
    /\ state.alloc # AllocNew
    /\ \A a \in MemAddrs : state.mem[a] = One

====
